---- MODULE Spec2Model ----
(***************************************************************************)
(* Role / permission synchronisation handlers of vercel-functions:         *)
(*   api/set-role            (src/unnamed/part_000, lines 216-335)         *)
(*   api/update-permissions  (src/api/update-permissions.ts)               *)
(*   api/bootstrap-admin     (src/api/bootstrap-admin.ts)                  *)
(* Each invocation of a handler is a process slot p.  A handler runs its   *)
(* synchronous prefix when the request arrives and then one step per       *)
(* awaited call: the step performs the remote call (token verification,    *)
(* custom-claims write, Firestore get/update/set) and runs the handler on  *)
(* to its next await or to its response.                                   *)
(***************************************************************************)
EXTENDS Integers, Sequences, FiniteSets, TLC

(* ----------------------------- bounds ---------------------------------- *)

\* Total number of requests that arrive in one behaviour.
MaxReqs == 3

\* Handler invocations that can be in flight at once.
Procs == {1, 2}

\* Users known to the identity provider.
Uids == {"u1", "u2"}

(* ------------------------- JavaScript values --------------------------- *)

\* req.body.uid / req.body.role when the key is absent from the JSON body.
UNDEF == "<undefined>"

\* Faulty variant of Falsy: only an absent key counts, "" passes.
FalsyAbsentOnly(x) == x = UNDEF

\* `!x` for a string-or-undefined x.
Falsy(x) == x \in {UNDEF, ""}

\* A JSON value found under a module key.  type is the JSON kind; b is the
\* value of a boolean; read and write are the object's own fields, each one
\* of "true", "false", "undefined", "number", "string".
JBool(v) == [type |-> "boolean", b |-> v, read |-> "undefined", write |-> "undefined"]

JNum == [type |-> "number", b |-> FALSE, read |-> "undefined", write |-> "undefined"]

JStr == [type |-> "string", b |-> FALSE, read |-> "undefined", write |-> "undefined"]

JNull == [type |-> "null", b |-> FALSE, read |-> "undefined", write |-> "undefined"]

JArr == [type |-> "array", b |-> FALSE, read |-> "undefined", write |-> "undefined"]

JObj(r, w) == [type |-> "object", b |-> FALSE, read |-> r, write |-> w]

FieldOf(v) == IF v THEN "true" ELSE "false"

\* { read: r, write: w } with boolean r, w.
RW(r, w) == JObj(FieldOf(r), FieldOf(w))

\* JavaScript's typeof for a JSON value.
TypeOf(v) ==
  CASE v.type = "boolean" -> "boolean"
    [] v.type = "number" -> "number"
    [] v.type = "string" -> "string"
    [] v.type = "null" -> "object"
    [] v.type = "array" -> "object"
    [] v.type = "object" -> "object"

\* typeof of an object's field.
TypeOfField(f) ==
  CASE f \in {"true", "false"} -> "boolean"
    [] f = "undefined" -> "undefined"
    [] f = "number" -> "number"
    [] f = "string" -> "string"

(* --------------------------- permission data --------------------------- *)

validKeys == {"dashboard", "reports", "inventory", "orders", "customers", "settings"}

\* The empty object {}.
EmptyPerms == [k \in {} |-> JNull]

DEFAULT_PERMISSIONS ==
  [admin |->
     [dashboard |-> RW(TRUE, TRUE), reports |-> RW(TRUE, TRUE),
      inventory |-> RW(TRUE, TRUE), orders |-> RW(TRUE, TRUE),
      customers |-> RW(TRUE, TRUE), settings |-> RW(TRUE, TRUE)],
   sub_admin |->
     [dashboard |-> RW(TRUE, TRUE), reports |-> RW(FALSE, FALSE),
      inventory |-> RW(FALSE, FALSE), orders |-> RW(FALSE, FALSE),
      customers |-> RW(FALSE, FALSE), settings |-> RW(FALSE, FALSE)],
   cashier |->
     [dashboard |-> RW(TRUE, FALSE), reports |-> RW(FALSE, FALSE),
      inventory |-> RW(TRUE, FALSE), orders |-> RW(TRUE, TRUE),
      customers |-> RW(TRUE, TRUE), settings |-> RW(FALSE, FALSE)],
   user |->
     [dashboard |-> RW(FALSE, FALSE), reports |-> RW(FALSE, FALSE),
      inventory |-> RW(FALSE, FALSE), orders |-> RW(FALSE, FALSE),
      customers |-> RW(FALSE, FALSE), settings |-> RW(FALSE, FALSE)]]

\* ["admin", "sub_admin", "user", "cashier"].includes(role)
RoleAllowed(role) == role \in {"admin", "sub_admin", "user", "cashier"}

\* The permissions literal of bootstrap-admin: plain booleans.
BootstrapPermissions == [k \in validKeys |-> JBool(TRUE)]

(* ----------------------------- strings --------------------------------- *)

\* Header texts are sequences of characters, so that startsWith and split
\* are computed as the code computes them.
BearerPrefix == <<"B", "e", "a", "r", "e", "r", " ">>

\* s.startsWith(pre)
StartsWith(s, pre) == Len(s) >= Len(pre) /\ SubSeq(s, 1, Len(pre)) = pre

\* Positions at which sep occurs in s.
Occurrences(s, sep) ==
  {j \in 1..(Len(s) - Len(sep) + 1) : SubSeq(s, j, j + Len(sep) - 1) = sep}

Least(S) == CHOOSE x \in S : \A y \in S : x <= y

\* s.split(sep)[1]: the text between the first occurrence of sep and the next
\* one (or the end of s); undefined when sep does not occur in s.
SplitSecond(s, sep) ==
  IF Occurrences(s, sep) = {} THEN <<UNDEF>>
  ELSE LET first == Least(Occurrences(s, sep))
           from == first + Len(sep)
           later == {j \in Occurrences(s, sep) : j >= from}
           to == IF later = {} THEN Len(s) ELSE Least(later) - 1
       IN SubSeq(s, from, to)

(* --------------------------- token verifier ---------------------------- *)

\* admin.auth().verifyIdToken(idToken): the decoded token of the ID tokens
\* in circulation; every other text is rejected (the call throws).
\* "A" was issued to an admin, "C" to a cashier, "N" to a user without a
\* role claim.
verifyIdToken(idToken) ==
  CASE idToken = <<"A">> -> [throws |-> FALSE, role |-> "admin"]
    [] idToken = <<"C">> -> [throws |-> FALSE, role |-> "cashier"]
    [] idToken = <<"N">> -> [throws |-> FALSE, role |-> UNDEF]
    [] OTHER -> [throws |-> TRUE, role |-> UNDEF]

\* Faulty variant of IsAdmin: any role claim passes.
HasRole(decodedToken) == ~Falsy(decodedToken.role)

\* decodedToken.role === "admin", the test both handlers make.
IsAdmin(decodedToken) == decodedToken.role = "admin"

(* ------------------------ permission patch ----------------------------- *)

\* Faulty variant of CheckEntry: a plain boolean passes as well.
CheckEntryLegacy(e) ==
  IF e.key \notin validKeys THEN "badkey"
  ELSE IF TypeOf(e.value) = "boolean" THEN "ok"
  ELSE IF TypeOf(e.value) # "object" THEN "badshape"
  ELSE IF e.value.type = "null" THEN "throw"
  ELSE IF TypeOfField(e.value.read) # "boolean" THEN "badshape"
  ELSE IF TypeOfField(e.value.write) # "boolean" THEN "badshape"
  ELSE "ok"

\* Faulty variant of CheckEntry: the key is not checked against validKeys.
CheckEntryAnyKey(e) ==
  IF TypeOf(e.value) # "object" THEN "badshape"
  ELSE IF e.value.type = "null" THEN "throw"
  ELSE IF TypeOfField(e.value.read) # "boolean" THEN "badshape"
  ELSE IF TypeOfField(e.value.write) # "boolean" THEN "badshape"
  ELSE "ok"

\* One [key, value] pair of Object.entries(permissions): the checks of the
\* validation loop's body, in the code's order.  "throw" is the TypeError of
\* reading .read of null.
CheckEntry(e) ==
  IF e.key \notin validKeys THEN "badkey"
  ELSE IF TypeOf(e.value) # "object" THEN "badshape"
  ELSE IF e.value.type = "null" THEN "throw"
  ELSE IF TypeOfField(e.value.read) # "boolean" THEN "badshape"
  ELSE IF TypeOfField(e.value.write) # "boolean" THEN "badshape"
  ELSE "ok"

\* The validation loop: the first entry that does not pass decides.
RECURSIVE ValidatePatch(_)
ValidatePatch(es) ==
  IF es = <<>> THEN "ok"
  ELSE IF CheckEntry(Head(es)) # "ok" THEN CheckEntry(Head(es))
  ELSE ValidatePatch(Tail(es))

PatchKeys(es) == {es[i].key : i \in 1..Len(es)}

PatchValue(es, k) == es[CHOOSE i \in 1..Len(es) : es[i].key = k].value

\* Faulty variant of Spread: the patch replaces the whole permissions object.
SpreadPatchOnly(currentPermissions, es) == [k \in PatchKeys(es) |-> PatchValue(es, k)]

\* { ...currentPermissions, ...permissions }
Spread(currentPermissions, es) ==
  [k \in (DOMAIN currentPermissions) \cup PatchKeys(es) |->
     IF k \in PatchKeys(es) THEN PatchValue(es, k) ELSE currentPermissions[k]]

(* ------------------------------ stores --------------------------------- *)

\* Custom claims of a user that has none.
NoClaims == [set |-> FALSE, role |-> UNDEF, permissions |-> EmptyPerms]

\* users/{uid} when there is no such document.
NoDoc == [exists |-> FALSE, role |-> UNDEF, permissions |-> EmptyPerms, createdAt |-> 0]

(* ----------------------------- requests -------------------------------- *)

Header(text) == [present |-> TRUE, text |-> text]

NoHeader == [present |-> FALSE, text |-> <<>>]

\* Authorization headers that arrive: none, another scheme, a lower-case
\* scheme, and Bearer with the tokens of an admin, a cashier, a user without
\* role claim, and a token the verifier rejects.
AdminAuth == Header(BearerPrefix \o <<"A">>)

OtherAuth ==
  {NoHeader,
   Header(<<"B", "a", "s", "i", "c", " ", "A">>),
   Header(<<"b", "e", "a", "r", "e", "r", " ", "A">>),
   Header(BearerPrefix \o <<"C">>),
   Header(BearerPrefix \o <<"N">>),
   Header(BearerPrefix \o <<"X">>)}

\* req.body.permissions: absent, or an object given by its entries in
\* insertion order.
Patch(es) == [present |-> TRUE, entries |-> es]

NoPatch == [present |-> FALSE, entries |-> <<>>]

Entry(k, v) == [key |-> k, value |-> v]

\* Entries that pass validation.
GoodEntries ==
  {Entry(k, v) : k \in {"dashboard", "settings"}, v \in {RW(TRUE, FALSE), RW(FALSE, TRUE)}}

\* Entries that do not: an unknown module, and the values that are no
\* { read, write } pair of booleans.
BadEntries ==
  {Entry("bogus", RW(TRUE, TRUE))} \cup
  {Entry("reports", v) :
     v \in {JBool(TRUE), JBool(FALSE), JNum, JStr, JNull, JArr,
            JObj("true", "undefined"), JObj("undefined", "false"),
            JObj("number", "true")}}

\* Patches that target the modules dashboard and settings with complete
\* grants, in either order of insertion.
GoodPatches ==
  {Patch(<<>>)}
  \cup {Patch(<<e>>) : e \in GoodEntries}
  \cup {Patch(<<Entry("dashboard", RW(FALSE, TRUE)), Entry("settings", RW(TRUE, FALSE))>>),
        Patch(<<Entry("settings", RW(FALSE, TRUE)), Entry("dashboard", RW(TRUE, FALSE))>>)}

\* Patches with an entry that does not pass, alone, after a good entry, and
\* before or after another bad one.
BadPatches ==
  {Patch(<<e>>) : e \in BadEntries}
  \cup {Patch(<<Entry("settings", RW(TRUE, FALSE)), e>>) :
          e \in {Entry("bogus", RW(TRUE, TRUE)), Entry("reports", JNull),
                 Entry("reports", JBool(TRUE))}}
  \cup {Patch(<<Entry("reports", JNull), Entry("bogus", RW(TRUE, TRUE))>>),
        Patch(<<Entry("bogus", RW(TRUE, TRUE)), Entry("reports", JNull)>>)}

PatchInputs == {NoPatch} \cup GoodPatches \cup BadPatches

UidInputs == {UNDEF, ""} \cup Uids

RoleInputs == {UNDEF, "", "admin", "sub_admin", "cashier", "user", "root"}

SecretInputs == {UNDEF, "s3cret", "guess"}

Request(op, method, authorization, secret, uid, role, permissions) ==
  [op |-> op, method |-> method, authorization |-> authorization,
   secret |-> secret, uid |-> uid, role |-> role, permissions |-> permissions]

NoRequest == Request("none", "POST", NoHeader, UNDEF, UNDEF, UNDEF, NoPatch)

\* The requests of one endpoint.  A handler reads nothing of a request it
\* answers with 200 (OPTIONS) or 405, so those arrive bare; requests that do
\* not carry the admin's token arrive with two bodies, the admin's with all.
\* Two update-permissions bodies carry a role key, which the handler does not
\* read.
SetRoleRequests ==
  {Request("set-role", m, NoHeader, UNDEF, UNDEF, UNDEF, NoPatch) : m \in {"OPTIONS", "GET"}}
  \cup {Request("set-role", "POST", a, UNDEF, b[1], b[2], NoPatch) :
          a \in OtherAuth,
          b \in {<<"u1", "cashier">>, <<UNDEF, "root">>}}
  \cup {Request("set-role", "POST", AdminAuth, UNDEF, u, r, NoPatch) :
          u \in Uids, r \in RoleInputs}
  \cup {Request("set-role", "POST", AdminAuth, UNDEF, u, r, NoPatch) :
          u \in {UNDEF, ""}, r \in {UNDEF, "cashier"}}

UpdatePermissionsRequests ==
  {Request("update-permissions", m, NoHeader, UNDEF, UNDEF, UNDEF, NoPatch) :
     m \in {"OPTIONS", "GET"}}
  \cup {Request("update-permissions", "POST", a, UNDEF, b[1], UNDEF, b[2]) :
          a \in OtherAuth,
          b \in {<<"u1", Patch(<<Entry("settings", RW(TRUE, FALSE))>>)>>,
                 <<UNDEF, Patch(<<Entry("bogus", JNull)>>)>>}}
  \cup {Request("update-permissions", "POST", AdminAuth, UNDEF, u, UNDEF, q) :
          u \in Uids, q \in {NoPatch} \cup GoodPatches}
  \cup {Request("update-permissions", "POST", AdminAuth, UNDEF, "u1", UNDEF, q) :
          q \in BadPatches}
  \cup {Request("update-permissions", "POST", AdminAuth, UNDEF, u, "admin",
                Patch(<<Entry("settings", RW(TRUE, FALSE))>>)) : u \in Uids}
  \cup {Request("update-permissions", "POST", AdminAuth, UNDEF, u, UNDEF, q) :
          u \in {UNDEF, ""},
          q \in {NoPatch, Patch(<<Entry("settings", RW(TRUE, FALSE))>>)}}

BootstrapRequests ==
  {Request("bootstrap-admin", m, NoHeader, UNDEF, UNDEF, UNDEF, NoPatch) :
     m \in {"OPTIONS", "GET"}}
  \cup {Request("bootstrap-admin", "POST", NoHeader, x, u, UNDEF, NoPatch) :
          x \in SecretInputs, u \in UidInputs}

(* ----------------------------- responses ------------------------------- *)

Response(status, error, permissions) ==
  [status |-> status, error |-> error, permissions |-> permissions]

NoResponse == Response(0, "", EmptyPerms)

Call(fn, ok) == [fn |-> fn, ok |-> ok]

NoLocals ==
  [idToken |-> <<>>, decodedToken |-> [throws |-> FALSE, role |-> UNDEF],
   permissions |-> EmptyPerms, userDoc |-> NoDoc]

(* ------------------------------- state --------------------------------- *)

VARIABLES
  claims,      \* identity provider: uid -> custom claims
  docs,        \* Firestore collection "users": uid -> document
  now,         \* server clock, read by FieldValue.serverTimestamp()
  secretEnv,   \* process.env.BOOTSTRAP_ADMIN_SECRET
  started,     \* requests that have arrived
  pc,          \* per invocation: the await the handler is suspended at
  req,         \* per invocation: the request
  loc,         \* per invocation: the handler's local constants
  res,         \* per invocation: the response sent
  calls        \* per invocation: the calls made to the verifier and the stores

vars == <<claims, docs, now, secretEnv, started, pc, req, loc, res, calls>>

stores == <<claims, docs, now>>

\* Both stores are empty; the secret is one of envs.
InitWith(envs) ==
  /\ claims = [u \in Uids |-> NoClaims]
  /\ docs = [u \in Uids |-> NoDoc]
  /\ now = 1
  /\ secretEnv \in envs
  /\ started = 0
  /\ pc = [p \in Procs |-> "idle"]
  /\ req = [p \in Procs |-> NoRequest]
  /\ loc = [p \in Procs |-> NoLocals]
  /\ res = [p \in Procs |-> NoResponse]
  /\ calls = [p \in Procs |-> <<>>]

\* The deployment may or may not have BOOTSTRAP_ADMIN_SECRET configured.
Init == InitWith({"s3cret", UNDEF})

\* The deployment with the secret configured.
SeqInit == InitWith({"s3cret"})

\* The handler of p sends a response and returns.
Reply(p, status, error, permissions) ==
  /\ pc' = [pc EXCEPT ![p] = "done"]
  /\ res' = [res EXCEPT ![p] = Response(status, error, permissions)]

\* The handler of p suspends at its next await.
Await(p, at) ==
  /\ pc' = [pc EXCEPT ![p] = at]
  /\ UNCHANGED res

\* A request arrives at a free invocation slot.
Arrive(p, r) ==
  /\ pc[p] \in {"idle", "done"}
  /\ started < MaxReqs
  /\ started' = started + 1
  /\ req' = [req EXCEPT ![p] = r]
  /\ calls' = [calls EXCEPT ![p] = <<>>]

Called(p, fn, ok) == calls' = [calls EXCEPT ![p] = Append(@, Call(fn, ok))]

\* Faulty variant of Preflight: any Authorization header passes.
PreflightAnyScheme(r) ==
  IF r.method = "OPTIONS" THEN Response(200, "", EmptyPerms)
  ELSE IF r.method # "POST" THEN Response(405, "Method not allowed", EmptyPerms)
  ELSE IF ~r.authorization.present
    THEN Response(401, "Missing authorization header", EmptyPerms)
  ELSE NoResponse

\* The method and Authorization checks that open set-role and
\* update-permissions: the response they end in, or status 0 to go on.
Preflight(r) ==
  IF r.method = "OPTIONS" THEN Response(200, "", EmptyPerms)
  ELSE IF r.method # "POST" THEN Response(405, "Method not allowed", EmptyPerms)
  ELSE IF ~(r.authorization.present /\ StartsWith(r.authorization.text, BearerPrefix))
    THEN Response(401, "Missing authorization header", EmptyPerms)
  ELSE NoResponse

(* ------------------------------ set-role ------------------------------- *)

\* Faulty variant of SetRoleClaims: the claims carry the role alone.
SetRoleClaimsRoleOnly(role, permissions) ==
  [set |-> TRUE, role |-> role, permissions |-> EmptyPerms]

\* The claims object set-role hands to setCustomUserClaims.
SetRoleClaims(role, permissions) ==
  [set |-> TRUE, role |-> role, permissions |-> permissions]

\* Faulty variant of SetRoleUpdate: an existing document keeps its permissions.
SetRoleUpdateRoleOnly(doc, role, permissions) == [doc EXCEPT !.role = role]

\* userRef.update({ role, permissions }): the other fields stay.
SetRoleUpdate(doc, role, permissions) ==
  [doc EXCEPT !.role = role, !.permissions = permissions]

\* Faulty variant of SetRoleCreate: the new document carries the role alone.
SetRoleCreateRoleOnly(role, permissions, time) ==
  [exists |-> TRUE, role |-> role, permissions |-> EmptyPerms, createdAt |-> time]

\* userRef.set({ role, permissions, createdAt: serverTimestamp() })
SetRoleCreate(role, permissions, time) ==
  [exists |-> TRUE, role |-> role, permissions |-> permissions, createdAt |-> time]

\* The request arrives: method and header checks, up to `await verifyIdToken`.
SetRoleStart(p, requests) ==
  \E r \in requests :
    /\ Arrive(p, r)
    /\ IF Preflight(r).status # 0
         THEN /\ Reply(p, Preflight(r).status, Preflight(r).error, EmptyPerms)
              /\ loc' = [loc EXCEPT ![p] = NoLocals]
         ELSE /\ Await(p, "verify")
              /\ loc' = [loc EXCEPT ![p] =
                           [NoLocals EXCEPT !.idToken =
                              SplitSecond(r.authorization.text, BearerPrefix)]]
    /\ UNCHANGED <<stores, secretEnv>>

\* verifyIdToken returns or throws; role check, body checks, default lookup,
\* up to `await setCustomUserClaims`.
SetRoleVerify(p) ==
  LET d == verifyIdToken(loc[p].idToken) IN
  /\ pc[p] = "verify"
  /\ req[p].op = "set-role"
  /\ Called(p, "verifyIdToken", ~d.throws)
  /\ IF d.throws
       THEN /\ Reply(p, 500, "Failed to set role", EmptyPerms)
            /\ UNCHANGED loc
     ELSE IF ~IsAdmin(d)
       THEN /\ Reply(p, 403, "Forbidden. Admin only.", EmptyPerms)
            /\ loc' = [loc EXCEPT ![p].decodedToken = d]
     ELSE IF Falsy(req[p].uid) \/ Falsy(req[p].role)
       THEN /\ Reply(p, 400, "uid and role are required", EmptyPerms)
            /\ loc' = [loc EXCEPT ![p].decodedToken = d]
     ELSE IF ~RoleAllowed(req[p].role)
       THEN /\ Reply(p, 400, "Invalid role. Use: admin, sub_admin, user", EmptyPerms)
            /\ loc' = [loc EXCEPT ![p].decodedToken = d]
     ELSE /\ Await(p, "setClaims")
          /\ loc' = [loc EXCEPT ![p].decodedToken = d,
                                ![p].permissions = DEFAULT_PERMISSIONS[req[p].role]]
  /\ UNCHANGED <<stores, secretEnv, started, req>>

\* setCustomUserClaims(uid, { role, permissions }) completes or throws, up to
\* `await userRef.get()`.
SetRoleSetClaims(p, ok) ==
  /\ pc[p] = "setClaims"
  /\ req[p].op = "set-role"
  /\ Called(p, "setCustomUserClaims", ok)
  /\ IF ok
       THEN /\ claims' = [claims EXCEPT ![req[p].uid] =
                            SetRoleClaims(req[p].role, loc[p].permissions)]
            /\ Await(p, "get")
       ELSE /\ Reply(p, 500, "Failed to set role", EmptyPerms)
            /\ UNCHANGED claims
  /\ UNCHANGED <<docs, now, secretEnv, started, req, loc>>

\* userRef.get() returns the document's snapshot or throws, up to the await
\* of update or set.
SetRoleDocGet(p, ok) ==
  /\ pc[p] = "get"
  /\ req[p].op = "set-role"
  /\ Called(p, "get", ok)
  /\ IF ok
       THEN /\ loc' = [loc EXCEPT ![p].userDoc = docs[req[p].uid]]
            /\ Await(p, "write")
       ELSE /\ Reply(p, 500, "Failed to set role", EmptyPerms)
            /\ UNCHANGED loc
  /\ UNCHANGED <<stores, secretEnv, started, req>>

\* userRef.update or userRef.set completes or throws (update also throws when
\* the document is not there), then the 200 response.
SetRoleDocWrite(p, ok) ==
  LET uid == req[p].uid
      exists == loc[p].userDoc.exists
      done == ok /\ (exists => docs[uid].exists)
  IN
  /\ pc[p] = "write"
  /\ req[p].op = "set-role"
  /\ Called(p, IF exists THEN "update" ELSE "set", done)
  /\ IF done
       THEN /\ docs' = [docs EXCEPT ![uid] =
                          IF exists
                            THEN SetRoleUpdate(docs[uid], req[p].role, loc[p].permissions)
                            ELSE SetRoleCreate(req[p].role, loc[p].permissions, now)]
            /\ now' = IF exists THEN now ELSE now + 1
            /\ Reply(p, 200, "", EmptyPerms)
       ELSE /\ Reply(p, 500, "Failed to set role", EmptyPerms)
            /\ UNCHANGED <<docs, now>>
  /\ UNCHANGED <<claims, secretEnv, started, req, loc>>

(* -------------------------- update-permissions ------------------------- *)

\* currentData?.permissions || {}: every document these handlers write has a
\* permissions object, a missing one reads as {}.
CurrentPermissions(userDoc) ==
  IF userDoc.exists THEN userDoc.permissions ELSE EmptyPerms

\* Faulty variant of UpdateClaims: syncs the permissions read, not the merged.
UpdateClaimsStale(currentData, updatedPermissions) ==
  [set |-> TRUE, role |-> currentData.role, permissions |-> currentData.permissions]

\* The claims object update-permissions hands to setCustomUserClaims.
UpdateClaims(currentData, updatedPermissions) ==
  [set |-> TRUE, role |-> currentData.role, permissions |-> updatedPermissions]

\* Faulty variant of UpdateDoc: set() instead of update(), the other fields go.
UpdateDocReplace(doc, updatedPermissions) ==
  [NoDoc EXCEPT !.exists = TRUE, !.permissions = updatedPermissions]

\* userRef.update({ permissions: updatedPermissions })
UpdateDoc(doc, updatedPermissions) ==
  [doc EXCEPT !.permissions = updatedPermissions]

\* The request arrives: method and header checks, up to `await verifyIdToken`.
UpdateStart(p, requests) ==
  \E r \in requests :
    /\ Arrive(p, r)
    /\ IF Preflight(r).status # 0
         THEN /\ Reply(p, Preflight(r).status, Preflight(r).error, EmptyPerms)
              /\ loc' = [loc EXCEPT ![p] = NoLocals]
         ELSE /\ Await(p, "verify")
              /\ loc' = [loc EXCEPT ![p] =
                           [NoLocals EXCEPT !.idToken =
                              SplitSecond(r.authorization.text, BearerPrefix)]]
    /\ UNCHANGED <<stores, secretEnv>>

\* verifyIdToken returns or throws; role check, body checks and the
\* validation loop, up to `await userRef.get()`.
UpdateVerify(p) ==
  LET d == verifyIdToken(loc[p].idToken)
      v == ValidatePatch(req[p].permissions.entries)
  IN
  /\ pc[p] = "verify"
  /\ req[p].op = "update-permissions"
  /\ Called(p, "verifyIdToken", ~d.throws)
  /\ loc' = IF d.throws THEN loc ELSE [loc EXCEPT ![p].decodedToken = d]
  /\ IF d.throws
       THEN Reply(p, 500, "Failed to update permissions", EmptyPerms)
     ELSE IF ~IsAdmin(d)
       THEN Reply(p, 403, "Forbidden. Admin only.", EmptyPerms)
     ELSE IF Falsy(req[p].uid) \/ ~req[p].permissions.present
       THEN Reply(p, 400, "uid and permissions are required", EmptyPerms)
     ELSE IF v = "badkey"
       THEN Reply(p, 400, "Invalid permission module", EmptyPerms)
     ELSE IF v = "badshape"
       THEN Reply(p, 400, "Permission must be { read: boolean, write: boolean }", EmptyPerms)
     ELSE IF v = "throw"
       THEN Reply(p, 500, "Failed to update permissions", EmptyPerms)
     ELSE Await(p, "get")
  /\ UNCHANGED <<stores, secretEnv, started, req>>

\* Faulty variant of NotFound: the existence check is skipped.
NotFoundNever(userDoc) == FALSE

\* !userDoc.exists
NotFound(userDoc) == ~userDoc.exists

\* userRef.get() returns the snapshot or throws; the 404, or the merge, up to
\* `await userRef.update`.
UpdateDocGet(p, ok) ==
  LET userDoc == docs[req[p].uid] IN
  /\ pc[p] = "get"
  /\ req[p].op = "update-permissions"
  /\ Called(p, "get", ok)
  /\ IF ~ok
       THEN /\ Reply(p, 500, "Failed to update permissions", EmptyPerms)
            /\ UNCHANGED loc
     ELSE IF NotFound(userDoc)
       THEN /\ Reply(p, 404, "User not found in Firestore", EmptyPerms)
            /\ loc' = [loc EXCEPT ![p].userDoc = userDoc]
     ELSE /\ Await(p, "write")
          /\ loc' = [loc EXCEPT ![p].userDoc = userDoc,
                                ![p].permissions =
                                  Spread(CurrentPermissions(userDoc),
                                         req[p].permissions.entries)]
  /\ UNCHANGED <<stores, secretEnv, started, req>>

\* userRef.update({ permissions }) completes or throws, up to
\* `await setCustomUserClaims`.
UpdateDocWrite(p, ok) ==
  LET uid == req[p].uid
      done == ok /\ docs[uid].exists
  IN
  /\ pc[p] = "write"
  /\ req[p].op = "update-permissions"
  /\ Called(p, "update", done)
  /\ IF done
       THEN /\ docs' = [docs EXCEPT ![uid] = UpdateDoc(docs[uid], loc[p].permissions)]
            /\ Await(p, "setClaims")
       ELSE /\ Reply(p, 500, "Failed to update permissions", EmptyPerms)
            /\ UNCHANGED docs
  /\ UNCHANGED <<claims, now, secretEnv, started, req, loc>>

\* Faulty variant of UpdateSetClaims: a throw of setCustomUserClaims is
\* swallowed and the 200 response is sent all the same.
UpdateSetClaimsSwallow(p, ok) ==
  /\ pc[p] = "setClaims"
  /\ req[p].op = "update-permissions"
  /\ Called(p, "setCustomUserClaims", ok)
  /\ claims' = IF ok
                THEN [claims EXCEPT ![req[p].uid] =
                        UpdateClaims(loc[p].userDoc, loc[p].permissions)]
                ELSE claims
  /\ Reply(p, 200, "", loc[p].permissions)
  /\ UNCHANGED <<docs, now, secretEnv, started, req, loc>>

\* setCustomUserClaims(uid, { role: currentData.role, permissions }) completes
\* or throws, then the 200 response with the merged permissions.
UpdateSetClaims(p, ok) ==
  /\ pc[p] = "setClaims"
  /\ req[p].op = "update-permissions"
  /\ Called(p, "setCustomUserClaims", ok)
  /\ IF ok
       THEN /\ claims' = [claims EXCEPT ![req[p].uid] =
                            UpdateClaims(loc[p].userDoc, loc[p].permissions)]
            /\ Reply(p, 200, "", loc[p].permissions)
       ELSE /\ Reply(p, 500, "Failed to update permissions", EmptyPerms)
            /\ UNCHANGED claims
  /\ UNCHANGED <<docs, now, secretEnv, started, req, loc>>

(* ---------------------------- bootstrap-admin -------------------------- *)

\* The claims object bootstrap-admin hands to setCustomUserClaims.
BootstrapClaims(permissions) ==
  [set |-> TRUE, role |-> "admin", permissions |-> permissions]

\* .doc(uid).set({ role: "admin", permissions, createdAt: serverTimestamp() })
BootstrapDoc(permissions, time) ==
  [exists |-> TRUE, role |-> "admin", permissions |-> permissions, createdAt |-> time]

\* The request arrives: method, secret and uid checks, up to
\* `await setCustomUserClaims`.
BootstrapStart(p, requests) ==
  \E r \in requests :
    /\ Arrive(p, r)
    /\ IF r.method = "OPTIONS"
         THEN /\ Reply(p, 200, "", EmptyPerms)
              /\ loc' = [loc EXCEPT ![p] = NoLocals]
       ELSE IF r.method # "POST"
         THEN /\ Reply(p, 405, "Method not allowed", EmptyPerms)
              /\ loc' = [loc EXCEPT ![p] = NoLocals]
       ELSE IF r.secret # secretEnv
         THEN /\ Reply(p, 401, "Unauthorized", EmptyPerms)
              /\ loc' = [loc EXCEPT ![p] = NoLocals]
       ELSE IF Falsy(r.uid)
         THEN /\ Reply(p, 400, "uid is required", EmptyPerms)
              /\ loc' = [loc EXCEPT ![p] = NoLocals]
       ELSE /\ Await(p, "setClaims")
            /\ loc' = [loc EXCEPT ![p] =
                         [NoLocals EXCEPT !.permissions = BootstrapPermissions]]
    /\ UNCHANGED <<stores, secretEnv>>

\* setCustomUserClaims(uid, { role: "admin", permissions }) completes or
\* throws, up to the await of set.
BootstrapSetClaims(p, ok) ==
  /\ pc[p] = "setClaims"
  /\ req[p].op = "bootstrap-admin"
  /\ Called(p, "setCustomUserClaims", ok)
  /\ IF ok
       THEN /\ claims' = [claims EXCEPT ![req[p].uid] = BootstrapClaims(loc[p].permissions)]
            /\ Await(p, "write")
       ELSE /\ Reply(p, 500, "Bootstrap failed", EmptyPerms)
            /\ UNCHANGED claims
  /\ UNCHANGED <<docs, now, secretEnv, started, req, loc>>

\* .set(...) completes or throws, then the 200 response.
BootstrapDocWrite(p, ok) ==
  /\ pc[p] = "write"
  /\ req[p].op = "bootstrap-admin"
  /\ Called(p, "set", ok)
  /\ IF ok
       THEN /\ docs' = [docs EXCEPT ![req[p].uid] = BootstrapDoc(loc[p].permissions, now)]
            /\ now' = now + 1
            /\ Reply(p, 200, "", EmptyPerms)
       ELSE /\ Reply(p, 500, "Bootstrap failed", EmptyPerms)
            /\ UNCHANGED <<docs, now>>
  /\ UNCHANGED <<claims, secretEnv, started, req, loc>>

(* --------------------------- specifications ---------------------------- *)

\* The requests of concurrent runs: the admin's, on one user.
RaceSetRoleRequests ==
  {Request("set-role", "POST", AdminAuth, UNDEF, "u1", r, NoPatch) : r \in {"cashier", "user"}}

RaceUpdatePermissionsRequests ==
  {Request("update-permissions", "POST", AdminAuth, UNDEF, "u1", UNDEF, Patch(<<e>>)) :
     e \in {Entry("dashboard", RW(FALSE, TRUE)), Entry("settings", RW(TRUE, FALSE)),
            Entry("bogus", RW(TRUE, TRUE))}}

RaceBootstrapRequests ==
  {Request("bootstrap-admin", "POST", NoHeader, x, "u1", UNDEF, NoPatch) :
     x \in {UNDEF, "s3cret"}}

\* Handlers run concurrently and every store call can throw.
Next ==
  \E p \in Procs :
    \/ SetRoleStart(p, RaceSetRoleRequests)
    \/ SetRoleVerify(p)
    \/ \E ok \in BOOLEAN : SetRoleSetClaims(p, ok)
    \/ \E ok \in BOOLEAN : SetRoleDocGet(p, ok)
    \/ \E ok \in BOOLEAN : SetRoleDocWrite(p, ok)
    \/ UpdateStart(p, RaceUpdatePermissionsRequests)
    \/ UpdateVerify(p)
    \/ \E ok \in BOOLEAN : UpdateDocGet(p, ok)
    \/ \E ok \in BOOLEAN : UpdateDocWrite(p, ok)
    \/ \E ok \in BOOLEAN : UpdateSetClaims(p, ok)
    \/ BootstrapStart(p, RaceBootstrapRequests)
    \/ \E ok \in BOOLEAN : BootstrapSetClaims(p, ok)
    \/ \E ok \in BOOLEAN : BootstrapDocWrite(p, ok)

Spec == Init /\ [][Next]_vars

\* No other invocation is between its first and its last step.
Alone(p) == \A q \in Procs \ {p} : pc[q] \in {"idle", "done"}

\* Handlers run one after the other, on either slot (a finished invocation's
\* request and response stay visible on its slot), and every store call can
\* throw.
AloneNext ==
  \E p \in Procs :
    \/ Alone(p) /\ SetRoleStart(p, RaceSetRoleRequests)
    \/ SetRoleVerify(p)
    \/ \E ok \in BOOLEAN : SetRoleSetClaims(p, ok)
    \/ \E ok \in BOOLEAN : SetRoleDocGet(p, ok)
    \/ \E ok \in BOOLEAN : SetRoleDocWrite(p, ok)
    \/ Alone(p) /\ UpdateStart(p, RaceUpdatePermissionsRequests)
    \/ UpdateVerify(p)
    \/ \E ok \in BOOLEAN : UpdateDocGet(p, ok)
    \/ \E ok \in BOOLEAN : UpdateDocWrite(p, ok)
    \/ \E ok \in BOOLEAN : UpdateSetClaims(p, ok)
    \/ Alone(p) /\ BootstrapStart(p, RaceBootstrapRequests)
    \/ \E ok \in BOOLEAN : BootstrapSetClaims(p, ok)
    \/ \E ok \in BOOLEAN : BootstrapDocWrite(p, ok)

AloneSpec == Init /\ [][AloneNext]_vars

\* Requests are served one at a time, by one invocation slot, and every store
\* call succeeds.
SeqNext ==
  \/ SetRoleStart(1, SetRoleRequests)
  \/ SetRoleVerify(1)
  \/ SetRoleSetClaims(1, TRUE)
  \/ SetRoleDocGet(1, TRUE)
  \/ SetRoleDocWrite(1, TRUE)
  \/ UpdateStart(1, UpdatePermissionsRequests)
  \/ UpdateVerify(1)
  \/ UpdateDocGet(1, TRUE)
  \/ UpdateDocWrite(1, TRUE)
  \/ UpdateSetClaims(1, TRUE)
  \/ BootstrapStart(1, BootstrapRequests)
  \/ BootstrapSetClaims(1, TRUE)
  \/ BootstrapDocWrite(1, TRUE)

SeqSpec == SeqInit /\ [][SeqNext]_vars

(* ------------------------------ properties ----------------------------- *)

Quiescent == \A p \in Procs : pc[p] \in {"idle", "done"}

HasRecord(u) == claims[u].set \/ docs[u].exists

Guarded(p) == req[p].op \in {"set-role", "update-permissions"}

\* The POST request of p to endpoint op has been answered with 200.
Succeeded(p, op) ==
  /\ pc[p] = "done"
  /\ req[p].op = op
  /\ req[p].method = "POST"
  /\ res[p].status = 200

\* The calls of p that reached a store, in order.
StoreCalls(p) == SelectSeq(calls[p], LAMBDA c : c.fn # "verifyIdToken")

\* C1: when requests are served one at a time and every store call
\* succeeds, then between requests every uid with a record in either store
\* has one in both, with the same role and the same permissions.
C1_StoresAgree ==
  Quiescent =>
    \A u \in Uids :
      HasRecord(u) =>
        /\ claims[u].set /\ docs[u].exists
        /\ claims[u].role = docs[u].role
        /\ claims[u].permissions = docs[u].permissions

\* A permission update has succeeded on a user another handler had created,
\* and the other user has a record too.
C1_Witness ==
  /\ Succeeded(1, "update-permissions")
  /\ docs[req[1].uid].permissions # loc[1].userDoc.permissions
  /\ \A u \in Uids : HasRecord(u)

\* C2: a set-role or update-permissions request whose token verifies with a
\* role other than admin (or none) is answered 403 after the verifier's call
\* alone: no call reaches the claims store or the document store.
C2_NonAdminForbidden ==
  \A p \in Procs :
    (/\ Guarded(p)
     /\ calls[p] # <<>>
     /\ calls[p][1] = Call("verifyIdToken", TRUE)
     /\ loc[p].decodedToken.role # "admin")
    => /\ pc[p] = "done"
       /\ res[p].status = 403
       /\ calls[p] = <<Call("verifyIdToken", TRUE)>>

\* A cashier's token with a body an admin could have sent.
C2_Witness ==
  \E p \in Procs :
    /\ pc[p] = "done" /\ Guarded(p) /\ res[p].status = 403
    /\ loc[p].decodedToken.role = "cashier"
    /\ req[p].uid \in Uids
    /\ req[p].role = "cashier" \/ req[p].permissions.present

\* The header is absent or its text does not begin with "Bearer ".
NotBearer(h) ==
  \/ ~h.present
  \/ Len(h.text) < 7
  \/ \E i \in 1..7 : h.text[i] # <<"B", "e", "a", "r", "e", "r", " ">>[i]

\* C3: a POST to set-role or update-permissions without an Authorization
\* header that begins with "Bearer " is answered 401 with no call made to the
\* verifier or to a store.
C3_MissingHeaderUnauthenticated ==
  \A p \in Procs :
    (Guarded(p) /\ req[p].method = "POST" /\ NotBearer(req[p].authorization))
    => /\ pc[p] = "done"
       /\ res[p].status = 401
       /\ calls[p] = <<>>

\* A header of another scheme, on a request with a body.
C3_Witness ==
  \E p \in Procs :
    /\ pc[p] = "done" /\ Guarded(p) /\ res[p].status = 401
    /\ req[p].authorization.present
    /\ req[p].uid \in Uids

\* C4 as claimed: when the verifier throws on the Bearer token of a set-role
\* or update-permissions request, the answer is 401 and no store is called.
\* The handlers answer 500: the throw lands in the catch clause that also
\* serves the store failures.
C4_VerifierThrowsUnauthenticated ==
  \A p \in Procs :
    (Guarded(p) /\ calls[p] # <<>> /\ calls[p][1] = Call("verifyIdToken", FALSE))
    => /\ pc[p] = "done"
       /\ res[p].status = 401
       /\ StoreCalls(p) = <<>>

Modules == {"dashboard", "reports", "inventory", "orders", "customers", "settings"}

\* The default grants per role, as the policy states them.
PolicyDefault(role) ==
  CASE role = "admin" -> [m \in Modules |-> RW(TRUE, TRUE)]
    [] role = "sub_admin" ->
         [m \in Modules |-> IF m = "dashboard" THEN RW(TRUE, TRUE) ELSE RW(FALSE, FALSE)]
    [] role = "cashier" ->
         [m \in Modules |->
            IF m \in {"dashboard", "inventory"} THEN RW(TRUE, FALSE)
            ELSE IF m \in {"orders", "customers"} THEN RW(TRUE, TRUE)
            ELSE RW(FALSE, FALSE)]
    [] role = "user" -> [m \in Modules |-> RW(FALSE, FALSE)]

\* C5: when an admin's set-role of role r on uid has succeeded, the
\* permissions of uid in the claims store and in the document store are the
\* default of r, whatever they were before.
C5_RoleAssignmentResets ==
  \A p \in Procs :
    Succeeded(p, "set-role") =>
      /\ claims[req[p].uid].permissions = PolicyDefault(req[p].role)
      /\ docs[req[p].uid].permissions = PolicyDefault(req[p].role)

\* cashier was assigned to a user whose document held a customised settings
\* grant.
C5_Witness ==
  /\ Succeeded(1, "set-role")
  /\ req[1].role = "cashier"
  /\ loc[1].userDoc.exists
  /\ loc[1].userDoc.permissions["settings"] = RW(TRUE, FALSE)
  /\ loc[1].userDoc.permissions["dashboard"] = RW(FALSE, TRUE)

\* C6: a successful update-permissions with patch p on stored permissions c
\* writes to both stores and returns a set with every key of c, in which each
\* module of p has p's grant and every other module its grant in c; the same
\* patch applied to the result leaves it as it is.
C6_MergeOverwritesPatchedModules ==
  \A p \in Procs :
    Succeeded(p, "update-permissions") =>
      LET c == loc[p].userDoc.permissions
          es == req[p].permissions.entries
          patched == {es[i].key : i \in 1..Len(es)}
          out == res[p].permissions
      IN /\ DOMAIN c \subseteq DOMAIN out
         /\ \A i \in 1..Len(es) : out[es[i].key] = es[i].value
         /\ \A k \in (DOMAIN c) \ patched : out[k] = c[k]
         /\ docs[req[p].uid].permissions = out
         /\ claims[req[p].uid].permissions = out
         /\ Spread(out, es) = out

\* A two-module patch changed dashboard on a user bootstrapped with boolean
\* grants and left orders as it was.
C6_Witness ==
  /\ Succeeded(1, "update-permissions")
  /\ Len(req[1].permissions.entries) = 2
  /\ loc[1].userDoc.permissions["dashboard"] = JBool(TRUE)
  /\ res[1].permissions["dashboard"] = RW(FALSE, TRUE)
  /\ res[1].permissions["orders"] = JBool(TRUE)

\* C7: no step of update-permissions changes the role, the createdAt or the
\* existence of a document, or any document but the target's; and a claims
\* write of it sets the role the handler read from the target's document,
\* which is the document's role.
C7_UpdatePreservesRoleAndCreatedAt ==
  [][\A p \in Procs :
       (req[p].op = "update-permissions" /\ pc[p] \notin {"idle", "done"} /\ pc'[p] # pc[p])
       => /\ \A u \in Uids :
               /\ docs'[u].role = docs[u].role
               /\ docs'[u].createdAt = docs[u].createdAt
               /\ docs'[u].exists = docs[u].exists
               /\ u # req[p].uid => docs'[u] = docs[u] /\ claims'[u] = claims[u]
          /\ claims' # claims =>
               /\ claims'[req[p].uid].role = loc[p].userDoc.role
               /\ claims'[req[p].uid].role = docs[req[p].uid].role]_vars

\* The body carried role admin with the patch; the cashier it targeted is
\* still a cashier, created when it was.
C7_Witness ==
  /\ Succeeded(1, "update-permissions")
  /\ req[1].role = "admin"
  /\ docs[req[1].uid].role = "cashier"
  /\ claims[req[1].uid].role = "cashier"
  /\ docs[req[1].uid].createdAt = loc[1].userDoc.createdAt
  /\ docs[req[1].uid].permissions # loc[1].userDoc.permissions

\* The admin's token verified for the request of p, an update-permissions
\* POST that carries a uid and a permissions object.
AdminUpdate(p) ==
  /\ req[p].op = "update-permissions"
  /\ req[p].method = "POST"
  /\ calls[p] # <<>>
  /\ calls[p][1] = Call("verifyIdToken", TRUE)
  /\ loc[p].decodedToken.role = "admin"
  /\ req[p].uid \in Uids
  /\ req[p].permissions.present

IsPair(v) ==
  v.type = "object" /\ v.read \in {"true", "false"} /\ v.write \in {"true", "false"}

Writes(p) ==
  SelectSeq(calls[p], LAMBDA c : c.fn \in {"setCustomUserClaims", "update", "set"})

\* C8 as claimed: an admin's patch with a key outside the six modules, or
\* with a value that is neither a boolean nor a pair of boolean read and
\* write, is answered 400 and nothing is written.  A null value is answered
\* 500 instead: typeof null is "object" and reading its .read throws.
C8_InvalidPatchBadRequest ==
  \A p \in Procs :
    (/\ AdminUpdate(p)
     /\ \E i \in 1..Len(req[p].permissions.entries) :
          LET e == req[p].permissions.entries[i] IN
          e.key \notin Modules \/ (e.value.type # "boolean" /\ ~IsPair(e.value)))
    => /\ pc[p] = "done"
       /\ res[p].status = 400
       /\ Writes(p) = <<>>

\* The patch names modules only, each with a boolean or a complete pair, and
\* at least one with a boolean.
BooleanPatch(es) ==
  /\ \A i \in 1..Len(es) :
       es[i].key \in Modules /\ (es[i].value.type = "boolean" \/ IsPair(es[i].value))
  /\ \E i \in 1..Len(es) : es[i].value.type = "boolean"

PassesValidation(es) ==
  \A i \in 1..Len(es) : es[i].key \in Modules /\ IsPair(es[i].value)

\* C10 as claimed: an admin's update-permissions on a uid without a document
\* is answered 404 and writes nothing, whether or not the patch is valid.
C10_MissingDocNotFound ==
  \A p \in Procs :
    (AdminUpdate(p) /\ ~docs[req[p].uid].exists /\ pc[p] = "done")
    => /\ res[p].status = 404
       /\ Writes(p) = <<>>

\* C10 as amended: the patch is validated before the document is looked up.
\* On a uid without a document a patch that passes validation is answered 404
\* after the lookup, with nothing written; a patch that does not pass is
\* answered 400 (500 for a null grant) and the document is not looked up.
C10_MissingDocAfterValidation ==
  \A p \in Procs :
    (AdminUpdate(p) /\ ~docs[req[p].uid].exists /\ pc[p] = "done")
    => IF PassesValidation(req[p].permissions.entries)
         THEN /\ res[p].status = 404
              /\ calls[p] = <<Call("verifyIdToken", TRUE), Call("get", TRUE)>>
         ELSE /\ res[p].status \in {400, 500}
              /\ calls[p] = <<Call("verifyIdToken", TRUE)>>

\* A valid one-module patch for a user that has no document, while the
\* other user has one.
C10_Witness ==
  \E p \in Procs :
    /\ AdminUpdate(p)
    /\ pc[p] = "done"
    /\ res[p].status = 404
    /\ Len(req[p].permissions.entries) = 1
    /\ ~docs[req[p].uid].exists
    /\ \E u \in Uids : docs[u].exists

\* The admin's token verified for the request of p, a POST to endpoint op.
AdminRequest(p, op) ==
  /\ req[p].op = op
  /\ req[p].method = "POST"
  /\ calls[p] # <<>>
  /\ calls[p][1] = Call("verifyIdToken", TRUE)
  /\ loc[p].decodedToken.role = "admin"

\* C11 as claimed: an admin's update-permissions whose permissions patch is
\* missing or is the empty object is answered 400 and writes nothing.  The
\* handler tests !permissions, which {} passes: the empty patch goes through
\* the loop, the lookup and both writes.
C11_EmptyPatchBadRequest ==
  \A p \in Procs :
    (/\ AdminRequest(p, "update-permissions")
     /\ req[p].uid \in Uids
     /\ req[p].permissions.entries = <<>>
     /\ pc[p] = "done")
    => /\ res[p].status = 400
       /\ Writes(p) = <<>>

\* C12: an admin's set-role whose uid is missing or empty, or whose role is
\* missing, empty or none of the four roles, is answered 400 after the
\* verifier's call alone: no claims write, no document read or write.
C12_BadRoleRequestRejected ==
  \A p \in Procs :
    (/\ AdminRequest(p, "set-role")
     /\ \/ req[p].uid \in {UNDEF, ""}
        \/ req[p].role \notin {"admin", "sub_admin", "cashier", "user"})
    => /\ pc[p] = "done"
       /\ res[p].status = 400
       /\ calls[p] = <<Call("verifyIdToken", TRUE)>>

\* An unknown role for a user that has claims and a document, which stay.
C12_Witness ==
  \E p \in Procs :
    /\ AdminRequest(p, "set-role")
    /\ req[p].role = "root"
    /\ req[p].uid \in Uids
    /\ res[p].status = 400
    /\ claims[req[p].uid].set
    /\ docs[req[p].uid].exists

\* p's handler has made the call fn and the call completed.
Completed(cs, fns) == \E i \in 1..Len(cs) : cs[i].fn \in fns /\ cs[i].ok

\* C13: a handler answers 200 only after its claims write and its document
\* write have both completed; and the step in which a call of it throws
\* changes neither store (what the handler wrote before stays, what it had
\* still to write is not written) and ends in the 500 response.
C13_PartialFailureReported ==
  [][\A p \in Procs :
       (pc[p] \notin {"idle", "done"} /\ calls'[p] # calls[p])
       => /\ ~calls'[p][Len(calls'[p])].ok
               => /\ claims' = claims
                  /\ docs' = docs
                  /\ pc'[p] = "done"
                  /\ res'[p].status = 500
          /\ (pc'[p] = "done" /\ res'[p].status = 200)
               => /\ Completed(calls'[p], {"setCustomUserClaims"})
                  /\ Completed(calls'[p], {"update", "set"})]_vars

\* A set-role was answered 500 after its claims write, with the document
\* still as another handler left it, and an update-permissions was answered
\* 500 after its document write, with the claims not holding its result.
C13_Witness ==
  \E p, q \in Procs :
    /\ pc[p] = "done" /\ req[p].op = "set-role" /\ res[p].status = 500
    /\ Len(calls[p]) = 4
    /\ calls[p][2] = Call("setCustomUserClaims", TRUE)
    /\ ~calls[p][4].ok
    /\ docs[req[p].uid].role # req[p].role
    /\ pc[q] = "done" /\ req[q].op = "update-permissions" /\ res[q].status = 500
    /\ calls[q] = <<Call("verifyIdToken", TRUE), Call("get", TRUE),
                    Call("update", TRUE), Call("setCustomUserClaims", FALSE)>>
    /\ docs[req[q].uid].permissions = loc[q].permissions
    /\ claims[req[q].uid].permissions # loc[q].permissions

\* The call p's handler has just made.
LastCall(p) == calls'[p][Len(calls'[p])]

\* The role p's handler writes to the claims store.
ClaimsRoleOf(p) ==
  CASE req[p].op = "set-role" -> req[p].role
    [] req[p].op = "update-permissions" -> loc[p].userDoc.role
    [] OTHER -> "admin"

\* The role the document of p's uid holds after p's handler has written it.
DocRoleOf(p) ==
  CASE req[p].op = "set-role" -> req[p].role
    [] req[p].op = "update-permissions" -> docs[req[p].uid].role
    [] OTHER -> "admin"

\* C14: each store keeps its own last writer. A completed claims write of a
\* handler leaves the claims store with that handler's role and permissions
\* and does not touch the document store; a completed document write leaves
\* the document with that handler's role and permissions and does not touch
\* the claims store. Nothing orders the two writes of one handler against
\* the writes of another (C14_Witness is the interleaving of the claim).
C14_EachStoreKeepsLastWriter ==
  [][\A p \in Procs :
       (/\ pc[p] \notin {"idle", "done"}
        /\ calls'[p] # calls[p]
        /\ LastCall(p).ok)
       => /\ LastCall(p).fn = "setCustomUserClaims"
               => /\ docs' = docs
                  /\ claims'[req[p].uid].set
                  /\ claims'[req[p].uid].role = ClaimsRoleOf(p)
                  /\ claims'[req[p].uid].permissions = loc[p].permissions
          /\ LastCall(p).fn \in {"update", "set"}
               => /\ claims' = claims
                  /\ docs'[req[p].uid].exists
                  /\ docs'[req[p].uid].role = DocRoleOf(p)
                  /\ docs'[req[p].uid].permissions = loc[p].permissions]_vars

\* A role assignment and a permission update on the same uid were both
\* answered 200 and the two stores hold a different role or different
\* permissions for that uid.
C14_Witness ==
  \E p, q \in Procs :
    /\ Succeeded(p, "set-role")
    /\ Succeeded(q, "update-permissions")
    /\ req[p].uid = req[q].uid
    /\ AdminRequest(p, "set-role")
    /\ AdminRequest(q, "update-permissions")
    /\ claims[req[p].uid].set
    /\ docs[req[p].uid].exists
    /\ \/ claims[req[p].uid].role # docs[req[p].uid].role
       \/ claims[req[p].uid].permissions # docs[req[p].uid].permissions

\* C15: after a bootstrap answered 200, both stores hold role admin and the
\* permissions a role assignment of admin writes (read and write on the six
\* modules).
C15_BootstrapWritesAdminDefault ==
  \A p \in Procs :
    Succeeded(p, "bootstrap-admin")
    => /\ claims[req[p].uid] = SetRoleClaims("admin", DEFAULT_PERMISSIONS["admin"])
       /\ docs[req[p].uid].exists
       /\ docs[req[p].uid].role = "admin"
       /\ docs[req[p].uid].permissions = DEFAULT_PERMISSIONS["admin"]

\* C16: a bootstrap request whose x-bootstrap-secret header is absent or is
\* not the configured secret is answered 401 without a store call, whether a
\* secret is configured or not; one with the configured secret and no uid is
\* answered 400 without a store call.
C16_BadSecretUnauthorized ==
  \A p \in Procs :
    (req[p].op = "bootstrap-admin" /\ req[p].method = "POST")
    => /\ (req[p].secret = UNDEF \/ req[p].secret # secretEnv)
            => /\ pc[p] = "done"
               /\ res[p].status = 401
               /\ calls[p] = <<>>
       /\ (req[p].secret # UNDEF /\ req[p].secret = secretEnv /\ Falsy(req[p].uid))
            => /\ pc[p] = "done"
               /\ res[p].status = 400
               /\ calls[p] = <<>>

\* C17: every permissions object held in the claims store or in the document
\* store has exactly the six module keys, with handlers interleaved and
\* store calls that may throw.
C17_SixModuleKeys ==
  \A u \in Uids :
    /\ claims[u].set => DOMAIN claims[u].permissions = Modules
    /\ docs[u].exists => DOMAIN docs[u].permissions = Modules

\* A patch was merged into the document and the claims of a uid by one
\* handler while a patch for an unknown module was refused by another.
C17_Witness ==
  \E p, q \in Procs :
    /\ Succeeded(p, "update-permissions")
    /\ req[p].permissions.entries # <<>>
    /\ docs[req[p].uid].permissions = loc[p].permissions
    /\ claims[req[p].uid].permissions = loc[p].permissions
    /\ pc[q] = "done"
    /\ AdminRequest(q, "update-permissions")
    /\ PatchKeys(req[q].permissions.entries) = {"bogus"}
    /\ res[q].status = 400

\* C18: whatever the two stores hold for a uid (the remains of a handler that
\* failed between its two writes included), the step that ends a handler
\* running alone in the 200 response leaves the claims and the document of
\* its uid with the same role and the same permissions.
C18_SuccessRealigns ==
  [][\A p \in Procs :
       (/\ pc[p] \notin {"idle", "done"}
        /\ req[p].method = "POST"
        /\ pc'[p] = "done"
        /\ res'[p].status = 200)
       => /\ claims'[req[p].uid].set
          /\ docs'[req[p].uid].exists
          /\ claims'[req[p].uid].role = docs'[req[p].uid].role
          /\ claims'[req[p].uid].permissions = docs'[req[p].uid].permissions]_vars

\* A role assignment wrote the claims of a uid and failed before writing the
\* document, which holds another role; a permission update on that uid then
\* ran to its 200 response and the stores agree, on values other than the
\* ones the failed role assignment left in the claims.
C18_Witness ==
  \E p, q \in Procs :
    /\ pc[q] = "done" /\ req[q].op = "set-role" /\ res[q].status = 500
    /\ Len(calls[q]) \in {3, 4}
    /\ calls[q][2] = Call("setCustomUserClaims", TRUE)
    /\ ~calls[q][Len(calls[q])].ok
    /\ Succeeded(p, "update-permissions")
    /\ req[p].uid = req[q].uid
    /\ docs[req[p].uid].exists
    /\ docs[req[p].uid].role # req[q].role
    /\ claims[req[p].uid].role = docs[req[p].uid].role
    /\ claims[req[p].uid].permissions = docs[req[p].uid].permissions
    /\ claims[req[p].uid].permissions # DEFAULT_PERMISSIONS[req[q].role]

\* Every request so far is a role assignment: each slot has served one
\* request and it is a set-role.
OnlyRoleAssignments ==
  /\ started = Cardinality(Procs)
  /\ \A q \in Procs : req[q].op = "set-role"

\* C19: once a document of a uid exists, no step of a role assignment
\* changes its createdAt (nor removes the document), however role
\* assignments on that uid interleave.
C19_SetRoleKeepsCreatedAt ==
  [][\A p \in Procs :
       (/\ OnlyRoleAssignments
        /\ pc[p] = "write"
        /\ calls'[p] # calls[p]
        /\ docs[req[p].uid].exists)
       => /\ docs'[req[p].uid].exists
          /\ docs'[req[p].uid].createdAt = docs[req[p].uid].createdAt]_vars

\* The grants of p's patch are the ones the document holds for their modules.
PatchApplied(p) ==
  \A k \in PatchKeys(req[p].permissions.entries) :
    /\ k \in DOMAIN docs[req[p].uid].permissions
    /\ docs[req[p].uid].permissions[k] = PatchValue(req[p].permissions.entries, k)

\* C20: when two permission updates on the same uid with patches over
\* disjoint modules were both answered 200, the document holds the grants of
\* both patches, however their reads and writes interleaved.
C20_NoLostUpdate ==
  \A p, q \in Procs :
    (/\ p # q
     /\ Succeeded(p, "update-permissions")
     /\ Succeeded(q, "update-permissions")
     /\ req[p].uid = req[q].uid
     /\ PatchKeys(req[p].permissions.entries) # {}
     /\ PatchKeys(req[q].permissions.entries) # {}
     /\ PatchKeys(req[p].permissions.entries)
          \cap PatchKeys(req[q].permissions.entries) = {})
    => PatchApplied(p) /\ PatchApplied(q)

====
